---- MODULE Spec2Model ----
(***************************************************************************)
(* A model of the thumbnail generator of adderly/go-thumbnail              *)
(* (src/thumbnail.go, the current package: lines 294-782).                 *)
(*                                                                         *)
(* Strings are sequences of one-character strings, so that the path        *)
(* functions of path/filepath (Base, Dir, Clean, Join) are computed, not   *)
(* assumed.  Pixel data is the sequence of resize options applied to the   *)
(* source pixels: the resize engine is external and is kept uninterpreted. *)
(***************************************************************************)
EXTENDS Integers, Sequences, FiniteSets, TLC

\* ------------------------------------------------------------------------
\* Bounds of the model

\* the longest list of output formats a generator is configured with
MaxFormats == 2

\* ------------------------------------------------------------------------
\* Strings and path/filepath (Unix)

Empty == << >>
Slash == "/"
Dot   == <<".">>
Root  == <<"/">>
DotDot == <<".", ".">>

\* s[a..b], empty when b < a
Sub(s, a, b) == IF b < a THEN Empty ELSE SubSeq(s, a, b)

\* the index of the last "/" of s, 0 when there is none
RECURSIVE LastSlash(_, _)
LastSlash(s, i) ==
    IF i = 0 THEN 0
    ELSE IF s[i] = Slash THEN i
    ELSE LastSlash(s, i - 1)

\* s without its trailing slashes
RECURSIVE StripTrailingSlashes(_)
StripTrailingSlashes(s) ==
    IF Len(s) > 0 /\ s[Len(s)] = Slash
    THEN StripTrailingSlashes(Sub(s, 1, Len(s) - 1))
    ELSE s

\* the "/"-separated elements of s from position i on, cur being the element
\* read so far; empty elements are kept out
RECURSIVE Elements(_, _, _)
Elements(s, i, cur) ==
    IF i > Len(s)
    THEN IF cur = Empty THEN << >> ELSE <<cur>>
    ELSE IF s[i] = Slash
         THEN (IF cur = Empty THEN << >> ELSE <<cur>>) \o Elements(s, i + 1, Empty)
         ELSE Elements(s, i + 1, Append(cur, s[i]))

\* Clean's pass over the elements: "." is dropped, ".." removes the element
\* before it (at the root it is dropped, at the start of a relative path kept)
RECURSIVE Resolve(_, _, _)
Resolve(elems, rooted, out) ==
    IF elems = << >> THEN out
    ELSE LET e == Head(elems)
             rest == Tail(elems)
         IN IF e = Dot THEN Resolve(rest, rooted, out)
            ELSE IF e = DotDot
                 THEN IF Len(out) > 0 /\ out[Len(out)] # DotDot
                      THEN Resolve(rest, rooted, Sub(out, 1, Len(out) - 1))
                      ELSE IF rooted THEN Resolve(rest, rooted, out)
                      ELSE Resolve(rest, rooted, Append(out, e))
                 ELSE Resolve(rest, rooted, Append(out, e))

\* the elements joined with "/"
RECURSIVE JoinElements(_)
JoinElements(elems) ==
    IF elems = << >> THEN Empty
    ELSE IF Len(elems) = 1 THEN elems[1]
    ELSE elems[1] \o <<Slash>> \o JoinElements(Tail(elems))

\* filepath.Clean
Clean(s) ==
    IF s = Empty THEN Dot
    ELSE LET rooted == s[1] = Slash
             body == JoinElements(Resolve(Elements(s, 1, Empty), rooted, << >>))
         IN IF rooted THEN Root \o body
            ELSE IF body = Empty THEN Dot
            ELSE body

\* filepath.Base
Base(s) ==
    IF s = Empty THEN Dot
    ELSE LET t == StripTrailingSlashes(s)
             u == Sub(t, LastSlash(t, Len(t)) + 1, Len(t))
         IN IF u = Empty THEN Root ELSE u

\* filepath.Dir
Dir(s) == Clean(Sub(s, 1, LastSlash(s, Len(s))))

\* filepath.Join of two elements
Join(a, b) ==
    IF a # Empty THEN Clean(a \o <<Slash>> \o b)
    ELSE IF b # Empty THEN Clean(b)
    ELSE Empty

\* a directory and the directories above it, as os.MkdirAll creates them
RECURSIVE Ancestors(_)
Ancestors(d) ==
    IF d = Dot \/ d = Root THEN {d}
    ELSE {d} \cup Ancestors(Dir(d))

\* ------------------------------------------------------------------------
\* Errors (the package's error values and the errors its functions build)

ErrNil == "nil"
ErrInvalidImageData == "invalid image data"
ErrInvalidNoTransformProvided == "no transform data was provided"
ErrRecoveredFromPanic == "recovered from panic"
ErrFailedToWrite == "failed to write image"

\* ------------------------------------------------------------------------
\* Images and pixel data

\* image.Image: nil, or pixels described by the resizes applied to the source
NilData == [nil |-> TRUE, hist |-> << >>]
SourceData == [nil |-> FALSE, hist |-> << >>]

\* *Image: the nil pointer, or an Image with its Path and ImageData
NilImage == [ptr |-> "nil", Path |-> Empty, ImageData |-> NilData]
NewImage(path, data) == [ptr |-> "obj", Path |-> path, ImageData |-> data]

\* imgconv.ResizeOption
ResizeOption(w, h, p) == [Width |-> w, Height |-> h, Percent |-> p]

\* imgconv.Resize: the pixels of base resized by option
Resize(base, option) == [nil |-> FALSE, hist |-> Append(base.hist, option)]

\* ImageDimension
ImageDimension(w, h, p, prefix, name, override) ==
    [Width |-> w, Height |-> h, Percentage |-> p,
     Prefix |-> prefix, Name |-> name, DestinationOverride |-> override]

\* GenerationResult
GenerationResult(filename, path, error) ==
    [Filename |-> filename, Path |-> path, Error |-> error]

\* GenerationResult{}
ZeroResult == GenerationResult(Empty, Empty, ErrNil)

\* ------------------------------------------------------------------------
\* CreateThumbnail

\* ResizeMode with the sizes tested before the percentage
ResizeModeSizesFirst(dimension) ==
    IF dimension.Width > 0 /\ dimension.Height > 0 THEN "exact"
    ELSE IF dimension.Width > 0 THEN "width"
    ELSE IF dimension.Height > 0 THEN "height"
    ELSE IF dimension.Percentage > 0 THEN "percent"
    ELSE "none"

\* the branch of CreateThumbnail's if-chain that a dimension takes:
\* the option given to imgconv.Resize, "none" for the final else
ResizeMode(dimension) ==
    IF dimension.Percentage > 0 THEN "percent"
    ELSE IF dimension.Width > 0 /\ dimension.Height > 0 THEN "exact"
    ELSE IF dimension.Width > 0 THEN "width"
    ELSE IF dimension.Height > 0 THEN "height"
    ELSE "none"

\* the imgconv.ResizeOption literal of each branch
OptionOf(dimension) ==
    CASE ResizeMode(dimension) = "percent" -> ResizeOption(0, 0, dimension.Percentage)
      [] ResizeMode(dimension) = "exact" -> ResizeOption(dimension.Width, dimension.Height, 0)
      [] ResizeMode(dimension) = "width" -> ResizeOption(dimension.Width, 0, 0)
      [] ResizeMode(dimension) = "height" -> ResizeOption(0, dimension.Height, 0)
      [] OTHER -> ResizeOption(0, 0, 0)

\* CreateThumbnail(i, dimension): the returned (img, err) and the calls made
\* of imgconv.Resize (the option given, and whether the call returned).
\* engineOk = FALSE is a panic inside imgconv.Resize, which the deferred
\* recover turns into an error (img stays nil).
CreateThumbnail(i, dimension, engineOk) ==
    IF i.ptr = "nil" \/ i.ImageData.nil
    THEN [img |-> NilData, err |-> ErrInvalidImageData, calls |-> << >>]
    ELSE IF ResizeMode(dimension) = "none"
    THEN [img |-> NilData, err |-> ErrInvalidNoTransformProvided, calls |-> << >>]
    ELSE IF ~engineOk
    THEN [img |-> NilData, err |-> ErrRecoveredFromPanic,
          calls |-> <<[option |-> OptionOf(dimension), ok |-> FALSE]>>]
    ELSE [img |-> Resize(i.ImageData, OptionOf(dimension)), err |-> ErrNil,
          calls |-> <<[option |-> OptionOf(dimension), ok |-> TRUE]>>]

\* Generator.GetProcessedImage
GetProcessedImage(i, dimension, engineOk) == CreateThumbnail(i, dimension, engineOk)

\* ------------------------------------------------------------------------
\* The file system and saveInternal

\* outcomes of one imgconv.Save
WriteOk == "ok"
PathErrors == {"ENOENT", "EACCES", "EISDIR"}
EncodeError == "encode"

\* what the environment may do to a write whose directory exists
Faults == {WriteOk, "EACCES", EncodeError}

\* imgconv.Save(output, ...) on file system fs: a missing directory and a
\* directory in the file's place are *fs.PathError; otherwise the
\* environment's fault decides
ImgconvSave(output, fs, fault) ==
    IF Dir(output) \notin fs.dirs THEN "ENOENT"
    ELSE IF output \in fs.dirs THEN "EISDIR"
    ELSE fault

\* os.MkdirAll(dirPath, 0755)
MkdirAll(dirPath, fs, mkdirOk) ==
    IF dirPath \in fs.dirs THEN [fs |-> fs, err |-> ErrNil]
    ELSE IF mkdirOk
    THEN [fs |-> [fs EXCEPT !.dirs = @ \cup Ancestors(dirPath)], err |-> ErrNil]
    ELSE [fs |-> fs, err |-> "mkdir failed"]

\* the guard of the retry in saveInternal: err.(*fs.PathError) did not panic,
\* pathErr != nil, and !alreadyTried
RetryGuard(o, alreadyTried) == o \in PathErrors /\ ~alreadyTried

\* saveInternal from the label try_again on.  env.faults[attempt] is the
\* environment's fault for that attempt, calls the file-system calls so far.
\* An error that is no *fs.PathError makes the type assertion panic.
RECURSIVE TryAgain(_, _, _, _, _, _)
TryAgain(output, fs, alreadyTried, attempt, env, calls) ==
    LET o == ImgconvSave(output, fs, env.faults[attempt])
        c1 == Append(calls, [op |-> "Save", path |-> output, err |-> o])
    IN IF o = WriteOk
       THEN [err |-> ErrNil, panicked |-> FALSE,
             fs |-> [fs EXCEPT !.files = @ \cup {output}], calls |-> c1]
       ELSE IF o \notin PathErrors
       THEN [err |-> o, panicked |-> TRUE, fs |-> fs, calls |-> c1]
       ELSE IF RetryGuard(o, alreadyTried)
       THEN LET m == MkdirAll(Dir(output), fs, env.mkdirOk)
            IN TryAgain(output, m.fs, TRUE, attempt + 1, env,
                        Append(c1, [op |-> "MkdirAll", path |-> Dir(output),
                                    err |-> m.err]))
       ELSE [err |-> o, panicked |-> FALSE, fs |-> fs, calls |-> c1]

\* saveInternal(output, base, option)
saveInternal(output, fs, env) == TryAgain(output, fs, FALSE, 1, env, << >>)

\* ------------------------------------------------------------------------
\* Generator.SaveWithDimension

\* ResolvePrefix without the dimension's own prefix
ResolvePrefixGeneratorOnly(gen, imgConf) == gen.Prefix

\* prefix: the dimension's, else the generator's
ResolvePrefix(gen, imgConf) ==
    IF Len(imgConf.Prefix) > 0 THEN imgConf.Prefix ELSE gen.Prefix

\* basefileName: the base of the dimension's name, else of the image's path
ResolveBaseFileName(i, imgConf) ==
    IF Len(imgConf.Name) > 0 THEN Base(imgConf.Name) ELSE Base(i.Path)

\* destpath: the override, else left empty
ResolveDestPath(imgConf) ==
    IF Len(imgConf.DestinationOverride) > 0 THEN imgConf.DestinationOverride ELSE Empty

\* directoryPath: left empty with an override, else the generator's
ResolveDirectoryPath(gen, imgConf) ==
    IF Len(imgConf.DestinationOverride) > 0 THEN Empty ELSE gen.DestinationPath

\* fileLocationPath, the path given to saveInternal
FileLocationPath(gen, i, imgConf) ==
    Join(ResolveDirectoryPath(gen, imgConf),
         ResolvePrefix(gen, imgConf) \o ResolveBaseFileName(i, imgConf))

\* the GenerationResult of a successful SaveWithDimension
SavedResult(gen, i, imgConf) ==
    GenerationResult(ResolveBaseFileName(i, imgConf), ResolveDestPath(imgConf), ErrNil)

\* the local variables of a SaveWithDimension call that passed its checks
NoFrame ==
    [called |-> FALSE, prefix |-> Empty, basefileName |-> Empty,
     directoryPath |-> Empty, destpath |-> Empty, fileLocationPath |-> Empty]
FrameOf(gen, i, imgConf) ==
    [called |-> TRUE, prefix |-> ResolvePrefix(gen, imgConf),
     basefileName |-> ResolveBaseFileName(i, imgConf),
     directoryPath |-> ResolveDirectoryPath(gen, imgConf),
     destpath |-> ResolveDestPath(imgConf),
     fileLocationPath |-> FileLocationPath(gen, i, imgConf)]

\* SaveWithDimension(i, imgConf): the returned (result, err), its locals, the
\* file system after it and the file-system calls it made
SaveWithDimension(gen, i, imgConf, fs, env) ==
    IF i.ptr = "nil" \/ i.ImageData.nil
    THEN [result |-> ZeroResult, err |-> ErrInvalidImageData, frame |-> NoFrame,
          fs |-> fs, calls |-> << >>]
    ELSE LET s == saveInternal(FileLocationPath(gen, i, imgConf), fs, env)
         IN [result |-> IF s.panicked \/ s.err # ErrNil THEN ZeroResult
                        ELSE SavedResult(gen, i, imgConf),
             err |-> IF s.panicked THEN ErrRecoveredFromPanic
                     ELSE IF s.err # ErrNil THEN ErrFailedToWrite
                     ELSE ErrNil,
             frame |-> FrameOf(gen, i, imgConf),
             fs |-> s.fs, calls |-> s.calls]

\* ------------------------------------------------------------------------
\* State

VARIABLES
    gen,          \* the Generator: Name, DestinationPath, Prefix, OutputFormats
    image,        \* the caller's *Image, which Generate mutates through i
    fs,           \* the file system: the directories and the files written
    pc,           \* where Generate is: "ready", "loop", "returned", "panicked"
                  \* ("direct" when the call is a direct one)
    idx,          \* the position of the range loop in gen.OutputFormats
    result,       \* Generate's result slice
    err,          \* Generate's returned error
    frames,       \* per iteration, the locals of its SaveWithDimension call
    resizeCalls,  \* the calls made of imgconv.Resize, in order
    fsCalls,      \* the calls made of imgconv.Save and os.MkdirAll, in order
    call          \* a direct call of CreateThumbnail, saveInternal or
                  \* NewImageFromFilewWithDefault: arguments and results

vars == <<gen, image, fs, pc, idx, result, err, frames, resizeCalls, fsCalls, call>>

\* the error of imgconv.Open(path): its kind and the path it names
OpenError(kind, path) == [kind |-> kind, path |-> path]
NoOpenError == OpenError("nil", Empty)

\* Generator.Width and Generator.Height as NewGenerator sets them
GeneratorWidth == 300
GeneratorHeight == 300

\* DefaultThumbnailSize
DefaultThumbnailWidth == 220
DefaultThumbnailHeight == 220

\* no direct call
NoCall ==
    [op |-> "none", done |-> FALSE,
     dimension |-> ImageDimension(0, 0, 0, Empty, Empty, Empty), output |-> Empty,
     img |-> NilData, err |-> ErrNil, panicked |-> FALSE,
     path |-> Empty, defaultImg |-> Empty, opens |-> << >>,
     loadErr |-> NoOpenError, target |-> <<0, 0>>]

\* ------------------------------------------------------------------------
\* Inputs

SourcePath == <<"/", "t", "/", "c">>
DestDir == <<"d">>
OverridePath == <<"o", "/", "f">>

\* dimensions that differ in their sizes only: one of each resize mode and
\* the unset one
SizedDims ==
    {ImageDimension(s[1], s[2], s[3], Empty, Empty, Empty) :
        s \in {<<0, 0, 0>>, <<0, 0, 50>>, <<3, 2, 0>>, <<3, 0, 0>>, <<0, 2, 0>>}}

\* dimensions of one size that differ in their naming
NamedDims ==
    {ImageDimension(3, 0, 0, prefix, name, override) :
        prefix \in {Empty, <<"q">>},
        name \in {Empty, <<"x", "/", "a">>},
        override \in {Empty, OverridePath}}

\* the lists of at most n dimensions of D
ListsUpTo(D, n) == UNION {[1..k -> D] : k \in 0..n}

\* NewGenerator(c, outputFormats)
NewGenerator(name, destinationPath, prefix, outputFormats) ==
    [Name |-> name, DestinationPath |-> destinationPath, Prefix |-> prefix,
     OutputFormats |-> outputFormats]

\* the file systems a call may start on: the working directory and the root
\* exist, the other directories may
FileSystems ==
    {[dirs |-> {Dot, Root} \cup ds, files |-> {}] : ds \in SUBSET {DestDir}}

\* the state in which Generate has not been called
Idle ==
    /\ pc = "ready"
    /\ idx = 0
    /\ result = << >>
    /\ err = ErrNil
    /\ frames = << >>
    /\ resizeCalls = << >>
    /\ fsCalls = << >>
    /\ call = NoCall

\* a generator with a list of sized dimensions, and any image argument
InitSized ==
    /\ gen \in {NewGenerator(Empty, DestDir, <<"p">>, fmts) :
                    fmts \in ListsUpTo(SizedDims, MaxFormats)}
    /\ image \in {NilImage, NewImage(SourcePath, NilData), NewImage(SourcePath, SourceData)}
    /\ fs \in FileSystems
    /\ Idle

\* a generator with every naming configuration, one named dimension at most,
\* and a loaded image
InitNamed ==
    /\ gen \in {NewGenerator(name, dest, prefix, fmts) :
                    name \in {Empty, <<"b">>}, dest \in {Empty, DestDir},
                    prefix \in {Empty, <<"p">>}, fmts \in ListsUpTo(NamedDims, 1)}
    /\ image \in {NewImage(path, SourceData) : path \in {Empty, SourcePath}}
    /\ fs \in FileSystems
    /\ Idle

\* dimensions for a direct call of CreateThumbnail, negative sizes included
ThumbDims ==
    {ImageDimension(w, h, p, Empty, Empty, Empty) :
        w \in {-1, 0, 3}, h \in {-1, 0, 2}, p \in {-1, 0, 50}}

\* output paths for a direct call of saveInternal
Outputs ==
    {<<"f">>, DestDir, DestDir \o <<"/", "f">>, DestDir \o <<"/", "e", "/", "f">>}

\* the state in which a direct call c is about to be made
Direct(c) ==
    /\ pc = "direct"
    /\ idx = 0
    /\ result = << >>
    /\ err = ErrNil
    /\ frames = << >>
    /\ resizeCalls = << >>
    /\ fsCalls = << >>
    /\ call = c
    /\ gen = NewGenerator(Empty, DestDir, Empty, << >>)

\* a direct call CreateThumbnail(i, dimension)
InitCreateThumbnail ==
    /\ image \in {NilImage, NewImage(SourcePath, NilData), NewImage(SourcePath, SourceData)}
    /\ fs \in FileSystems
    /\ \E d \in ThumbDims :
         Direct([NoCall EXCEPT !.op = "CreateThumbnail", !.dimension = d])

\* a direct call saveInternal(output, base, option)
InitSaveInternal ==
    /\ image = NewImage(SourcePath, SourceData)
    /\ fs \in FileSystems
    /\ \E o \in Outputs :
         Direct([NoCall EXCEPT !.op = "saveInternal", !.output = o])

\* the image files a load may name
ImageFiles == {SourcePath, <<"y">>}

\* a direct call gen.NewImageFromFilewWithDefault(path, defaultImg)
InitLoad ==
    /\ image = NilImage
    /\ fs \in FileSystems
    /\ \E p \in ImageFiles, d \in {Empty} \cup ImageFiles :
         Direct([NoCall EXCEPT !.op = "NewImageFromFilewWithDefault",
                               !.path = p, !.defaultImg = d])

Init ==
    \/ InitSized
    \/ InitNamed
    \/ InitCreateThumbnail
    \/ InitSaveInternal
    \/ InitLoad

\* ------------------------------------------------------------------------
\* Generator.Generate

\* the environment of one save: the faults of the first and second write,
\* whether MkdirAll works
Environments == [faults : Faults \X Faults, mkdirOk : BOOLEAN]

\* FailedResult without the source path
FailedResultNoPath(i, e) == GenerationResult(Empty, Empty, e)

\* the GenerationResult appended for a failed dimension
FailedResult(i, e) == GenerationResult(i.Path, i.Path, e)

\* the log entries of iteration k
TagCalls(k, calls) == [n \in 1..Len(calls) |-> [k |-> k] @@ calls[n]]
TagResize(k, base, calls) ==
    [n \in 1..Len(calls) |-> [k |-> k, base |-> base] @@ calls[n]]

\* GenerateEnter without the test for an empty list
GenerateEnterNoCheck ==
    /\ pc = "ready"
    /\ pc' = "loop"
    /\ idx' = 1
    /\ result' = << >>
    /\ UNCHANGED <<gen, image, fs, err, frames, resizeCalls, fsCalls, call>>

\* the entry of Generate up to the range loop
GenerateEnter ==
    /\ pc = "ready"
    /\ IF Len(gen.OutputFormats) = 0
       THEN /\ pc' = "returned"
            /\ err' = ErrInvalidNoTransformProvided
            /\ idx' = idx
       ELSE /\ pc' = "loop"
            /\ err' = err
            /\ idx' = 1
    /\ result' = << >>
    /\ UNCHANGED <<gen, image, fs, frames, resizeCalls, fsCalls, call>>

\* one iteration of the range loop whose GetProcessedImage fails: reading
\* i.Path for the result panics when i is nil
IterateResizeFailed(t) ==
    /\ IF image.ptr = "nil"
       THEN /\ pc' = "panicked"
            /\ UNCHANGED <<idx, result, frames>>
       ELSE /\ result' = Append(result, FailedResult(image, t.err))
            /\ frames' = Append(frames, NoFrame)
            /\ idx' = idx + 1
            /\ pc' = pc
    /\ resizeCalls' = resizeCalls \o TagResize(idx, image.ImageData, t.calls)
    /\ UNCHANGED <<image, fs, fsCalls>>

\* IterateSave on a copy of the image: the caller's pixels are left alone
IterateSaveOnCopy(t, env) ==
    LET img == [image EXCEPT !.ImageData = t.img]
        save == SaveWithDimension(gen, img, gen.OutputFormats[idx], fs, env)
    IN /\ image' = image
       /\ result' = Append(result, IF save.err # ErrNil
                                   THEN FailedResult(img, save.err)
                                   ELSE save.result)
       /\ frames' = Append(frames, save.frame)
       /\ fs' = save.fs
       /\ fsCalls' = fsCalls \o TagCalls(idx, save.calls)
       /\ resizeCalls' = resizeCalls \o TagResize(idx, image.ImageData, t.calls)
       /\ idx' = idx + 1
       /\ pc' = pc

\* one iteration whose GetProcessedImage succeeds: the image's pixels are
\* replaced, then SaveWithDimension runs
IterateSave(t, env) ==
    LET img == [image EXCEPT !.ImageData = t.img]
        save == SaveWithDimension(gen, img, gen.OutputFormats[idx], fs, env)
    IN /\ image' = img
       /\ result' = Append(result, IF save.err # ErrNil
                                   THEN FailedResult(img, save.err)
                                   ELSE save.result)
       /\ frames' = Append(frames, save.frame)
       /\ fs' = save.fs
       /\ fsCalls' = fsCalls \o TagCalls(idx, save.calls)
       /\ resizeCalls' = resizeCalls \o TagResize(idx, image.ImageData, t.calls)
       /\ idx' = idx + 1
       /\ pc' = pc

\* one iteration of the range loop
GenerateIterate ==
    /\ pc = "loop"
    /\ idx <= Len(gen.OutputFormats)
    /\ \E engineOk \in BOOLEAN :
         LET t == GetProcessedImage(image, gen.OutputFormats[idx], engineOk)
         IN IF t.err # ErrNil
            THEN IterateResizeFailed(t)
            ELSE \E env \in Environments : IterateSave(t, env)
    /\ UNCHANGED <<gen, err, call>>

\* the return after the loop
GenerateReturn ==
    /\ pc = "loop"
    /\ idx > Len(gen.OutputFormats)
    /\ pc' = "returned"
    /\ err' = ErrNil
    /\ UNCHANGED <<gen, image, fs, idx, result, frames, resizeCalls, fsCalls, call>>

\* ------------------------------------------------------------------------
\* Direct calls

\* CreateThumbnail(i, dimension) called directly
CreateThumbnailCall ==
    /\ call.op = "CreateThumbnail"
    /\ ~call.done
    /\ \E engineOk \in BOOLEAN :
         LET t == CreateThumbnail(image, call.dimension, engineOk)
         IN /\ call' = [call EXCEPT !.done = TRUE, !.img = t.img, !.err = t.err]
            /\ resizeCalls' = TagResize(0, image.ImageData, t.calls)
    /\ UNCHANGED <<gen, image, fs, pc, idx, result, err, frames, fsCalls>>

\* saveInternal(output, base, option) called directly
SaveInternalCall ==
    /\ call.op = "saveInternal"
    /\ ~call.done
    /\ \E env \in Environments :
         LET s == saveInternal(call.output, fs, env)
         IN /\ call' = [call EXCEPT !.done = TRUE, !.err = s.err,
                                    !.panicked = s.panicked]
            /\ fs' = s.fs
            /\ fsCalls' = TagCalls(0, s.calls)
    /\ UNCHANGED <<gen, image, pc, idx, result, err, frames, resizeCalls>>

\* what imgconv.Open may do with a file: decode it, not find it, or fail to
\* decode it
OpenOutcomes == {"ok", "ENOENT", "decode"}

\* ImageFromFile(path), outcome being what imgconv.Open does with the file:
\* the returned (*Image, error), the image's TargetDimension, and the call
\* made of imgconv.Open
ImageFromFile(path, outcome) ==
    IF outcome # "ok"
    THEN [img |-> NilImage, err |-> OpenError(outcome, path), target |-> <<0, 0>>,
          opens |-> <<[path |-> path, err |-> OpenError(outcome, path)]>>]
    ELSE [img |-> NewImage(path, SourceData), err |-> NoOpenError,
          target |-> <<DefaultThumbnailWidth, DefaultThumbnailHeight>>,
          opens |-> <<[path |-> path, err |-> NoOpenError]>>]

\* gen.NewImageFromFilewWithDefault(path, defaultImg), files[p] being what
\* imgconv.Open does with file p: err is assigned again by the load of the
\* default image
NewImageFromFilewWithDefault(path, defaultImg, files) ==
    LET first == ImageFromFile(path, files[path])
    IN IF first.err # NoOpenError
       THEN IF defaultImg # Empty
            THEN LET second == ImageFromFile(defaultImg, files[defaultImg])
                 IN IF second.err # NoOpenError
                    THEN [img |-> NilImage, err |-> second.err, target |-> <<0, 0>>,
                          opens |-> first.opens \o second.opens]
                    ELSE [img |-> second.img, err |-> NoOpenError,
                          target |-> <<GeneratorWidth, GeneratorHeight>>,
                          opens |-> first.opens \o second.opens]
            ELSE [img |-> NilImage, err |-> first.err, target |-> <<0, 0>>,
                  opens |-> first.opens]
       ELSE [img |-> first.img, err |-> NoOpenError,
             target |-> <<GeneratorWidth, GeneratorHeight>>, opens |-> first.opens]

\* gen.NewImageFromFilewWithDefault(path, defaultImg) called directly
NewImageFromFilewWithDefaultCall ==
    /\ call.op = "NewImageFromFilewWithDefault"
    /\ ~call.done
    /\ \E files \in [ImageFiles -> OpenOutcomes] :
         LET r == NewImageFromFilewWithDefault(call.path, call.defaultImg, files)
         IN /\ call' = [call EXCEPT !.done = TRUE, !.loadErr = r.err,
                                    !.opens = r.opens, !.target = r.target]
            /\ image' = r.img
    /\ UNCHANGED <<gen, fs, pc, idx, result, err, frames, resizeCalls, fsCalls>>

Next ==
    \/ NewImageFromFilewWithDefaultCall
    \/ GenerateEnter
    \/ GenerateIterate
    \/ GenerateReturn
    \/ CreateThumbnailCall
    \/ SaveInternalCall

Spec == Init /\ [][Next]_vars

\* ------------------------------------------------------------------------
\* Vocabulary of the properties

Formats == gen.OutputFormats
NumFormats == Len(gen.OutputFormats)

\* Generate was the call made, and it has returned
Returned == pc = "returned"

\* the image argument is a loaded image: an Image with pixel data
Loaded == image.ptr = "obj" /\ ~image.ImageData.nil

\* a dimension with no width, height or percentage
Unset(d) == d.Width = 0 /\ d.Height = 0 /\ d.Percentage = 0

\* the imgconv.Save calls of iteration k, in order
SaveCallsOf(k) == SelectSeq(fsCalls, LAMBDA c : c.k = k /\ c.op = "Save")

\* iteration k wrote its file: its last imgconv.Save succeeded
Wrote(k) ==
    /\ SaveCallsOf(k) # << >>
    /\ SaveCallsOf(k)[Len(SaveCallsOf(k))].err = WriteOk

\* no save of the call ended in a failed write
SavesSucceed == \A k \in 1..NumFormats : SaveCallsOf(k) # << >> => Wrote(k)

\* the resize engine returned from every call made of it
EngineWorks == \A n \in 1..Len(resizeCalls) : resizeCalls[n].ok

\* position k holds the only unset dimension of the list
OnlyUnsetAt(k) ==
    /\ k \in 1..NumFormats
    /\ Unset(Formats[k])
    /\ \A j \in 1..NumFormats : j # k => ~Unset(Formats[j])

\* ------------------------------------------------------------------------
\* C1: with N >= 1 dimensions and any image argument (loaded, without pixel
\* data, absent), Generate returns normally, with exactly N results, the
\* k-th for the k-th dimension, and no top-level error.
\* The code does not: with an absent image the loop reads i.Path of a nil
\* pointer and Generate panics.
C1_GenerateReturnsAllResults ==
    (call.op = "none" /\ NumFormats >= 1) =>
        /\ pc # "panicked"
        /\ Returned =>
             /\ err = ErrNil
             /\ Len(result) = NumFormats
             /\ \A k \in 1..NumFormats :
                  /\ Unset(Formats[k]) => result[k].Error # ErrNil
                  /\ result[k].Error = ErrNil =>
                       result[k] = SavedResult(gen, image, Formats[k])

\* ------------------------------------------------------------------------
\* C2: Generate on an empty list of dimensions returns
\* ErrInvalidNoTransformProvided and no results, having resized and written
\* nothing; and a top-level error is returned for an empty list only.
C2_EmptyListIsTheOnlyTopLevelError ==
    call.op = "none" =>
        /\ NumFormats = 0 => pc \in {"ready", "returned"}
        /\ (Returned /\ NumFormats = 0) =>
             /\ err = ErrInvalidNoTransformProvided
             /\ result = << >>
             /\ resizeCalls = << >>
             /\ fsCalls = << >>
             /\ fs.files = {}
        /\ (Returned /\ err # ErrNil) => NumFormats = 0

\* Generate has returned on an empty list, whatever the image argument
C2_Witness ==
    /\ Returned
    /\ NumFormats = 0
    /\ err = ErrInvalidNoTransformProvided
    /\ image.ptr = "nil"

\* ------------------------------------------------------------------------
\* C3: on a loaded image, with exactly one unset dimension, at position k,
\* and every save's write succeeding (the resize engine returning from every
\* call), result k carries an error and the source path as Filename and as
\* Path, and every other result is a successful save without error.
C3_OneInvalidDimension ==
    (Returned /\ Loaded /\ EngineWorks /\ SavesSucceed) =>
        \A k \in 1..NumFormats :
            OnlyUnsetAt(k) =>
                /\ Len(result) = NumFormats
                /\ result[k].Error # ErrNil
                /\ result[k].Filename = image.Path
                /\ result[k].Path = image.Path
                /\ SaveCallsOf(k) = << >>
                /\ \A j \in 1..NumFormats :
                     j # k => /\ result[j].Error = ErrNil
                              /\ Wrote(j)
                              /\ FileLocationPath(gen, image, Formats[j]) \in fs.files

\* Generate has returned two results or more, one of them for the only unset
\* dimension, the others saved
C3_Witness ==
    /\ Returned /\ Loaded /\ EngineWorks /\ SavesSucceed
    /\ NumFormats >= 2
    /\ \E k \in 1..NumFormats :
         /\ OnlyUnsetAt(k)
         /\ result[k].Error = ErrInvalidNoTransformProvided
         /\ \A j \in 1..NumFormats : j # k => result[j].Error = ErrNil /\ Wrote(j)

\* ------------------------------------------------------------------------
\* C4: the filename resolved for an output of Generate is the dimension's
\* name (its base name) if set, else the generator's default name if set,
\* else the base name of the image's source path.
\* The code does not: SaveWithDimension never reads gen.Name.
C4_FilenamePrecedence ==
    \A k \in 1..Len(frames) :
        (frames[k].called /\ result[k].Error = ErrNil) =>
            frames[k].basefileName =
                IF Formats[k].Name # Empty THEN Base(Formats[k].Name)
                ELSE IF gen.Name # Empty THEN gen.Name
                ELSE Base(image.Path)

\* ------------------------------------------------------------------------
\* C5: when a dimension sets a destination override, its file is written at
\* exactly the override path.
\* The code does not: the override goes to destpath, and the file is written
\* at fileLocationPath, which is joined from an empty directory.
C5_OverrideIsTheWrittenPath ==
    \A n \in 1..Len(fsCalls) :
        (/\ fsCalls[n].op = "Save"
         /\ fsCalls[n].err = WriteOk
         /\ fsCalls[n].k >= 1
         /\ Formats[fsCalls[n].k].DestinationOverride # Empty) =>
            fsCalls[n].path = Formats[fsCalls[n].k].DestinationOverride

\* ------------------------------------------------------------------------
\* C6: the Path of every successful GenerationResult of Generate is the full
\* path at which the file was written.
\* The code does not: Path is destpath, which is the override or empty.
C6_PathIsTheWrittenPath ==
    \A k \in 1..Len(result) :
        result[k].Error = ErrNil =>
            /\ Wrote(k)
            /\ result[k].Path = SaveCallsOf(k)[Len(SaveCallsOf(k))].path
            /\ result[k].Path \in fs.files

\* ------------------------------------------------------------------------
\* C7: without a destination override, the file is written at the
\* generator's destination directory joined with prefix+filename, the prefix
\* being the dimension's if set and the generator's otherwise, put before
\* the resolved filename without a separator.
C7_PathWithoutOverride ==
    \A k \in 1..Len(frames) :
        (frames[k].called /\ Formats[k].DestinationOverride = Empty) =>
            LET prefix == IF Formats[k].Prefix # Empty THEN Formats[k].Prefix
                          ELSE gen.Prefix
                path == Join(gen.DestinationPath, prefix \o frames[k].basefileName)
            IN /\ SaveCallsOf(k) # << >>
               /\ \A n \in 1..Len(SaveCallsOf(k)) : SaveCallsOf(k)[n].path = path
               /\ result[k].Error = ErrNil => path \in fs.files

\* a file has been written without an override, under the dimension's prefix
C7_Witness ==
    \E k \in 1..Len(frames) :
        /\ frames[k].called
        /\ Formats[k].DestinationOverride = Empty
        /\ Formats[k].Prefix # Empty
        /\ gen.Prefix # Empty
        /\ gen.DestinationPath # Empty
        /\ result[k].Error = ErrNil
        /\ Wrote(k)

\* ------------------------------------------------------------------------
\* C8: the Filename of a successful GenerationResult is the resolved prefix
\* followed by the resolved filename, with a destination override too.
\* The code does not: Filename is basefileName, without the prefix.
C8_FilenameCarriesPrefix ==
    \A k \in 1..Len(result) :
        result[k].Error = ErrNil =>
            result[k].Filename = frames[k].prefix \o frames[k].basefileName

\* ------------------------------------------------------------------------
\* C9: saveInternal makes two write attempts at most; the second, after one
\* MkdirAll, only when the first failed because the directory does not
\* exist; a first failure of another kind, and a failure of the second
\* attempt, is returned as an error without a further attempt.
\* The code does not: it retries after any *fs.PathError, and an error that
\* is no *fs.PathError makes its type assertion panic.
C9_RetryOnlyForMissingDirectory ==
    (call.op = "saveInternal" /\ call.done) =>
        LET saves == SaveCallsOf(0)
            mkdirs == SelectSeq(fsCalls, LAMBDA c : c.op = "MkdirAll")
        IN /\ Len(saves) \in 1..2
           /\ Len(saves) = 2 =>
                /\ saves[1].err = "ENOENT"
                /\ Len(mkdirs) = 1
                /\ fsCalls[2].op = "MkdirAll"
           /\ saves[1].err \notin {WriteOk, "ENOENT"} =>
                /\ Len(saves) = 1
                /\ ~call.panicked
                /\ call.err = saves[1].err
           /\ (Len(saves) = 2 /\ saves[2].err # WriteOk) =>
                /\ ~call.panicked
                /\ call.err = saves[2].err

\* ------------------------------------------------------------------------
\* C10: for an image with pixel data CreateThumbnail takes the first that
\* matches of: percentage > 0, a resize by that percentage alone; width > 0
\* and height > 0, a resize to width x height; width > 0, a resize by the
\* width alone; height > 0, a resize by the height alone; and with none of
\* them (none set, or none positive) it fails with
\* ErrInvalidNoTransformProvided, gives no pixels and resizes nothing.

\* the call made exactly one resize, of the image's pixels with option o,
\* and returned its pixels (an error and no pixels when the engine panicked)
OneResize(o) ==
    /\ Len(resizeCalls) = 1
    /\ resizeCalls[1].option = o
    /\ resizeCalls[1].base = image.ImageData
    /\ IF resizeCalls[1].ok
       THEN call.err = ErrNil /\ call.img = Resize(image.ImageData, o)
       ELSE call.err = ErrRecoveredFromPanic /\ call.img = NilData

C10_ResizeModePrecedence ==
    (call.op = "CreateThumbnail" /\ call.done /\ Loaded) =>
        LET d == call.dimension
        IN /\ d.Percentage > 0 => OneResize(ResizeOption(0, 0, d.Percentage))
           /\ (d.Percentage <= 0 /\ d.Width > 0 /\ d.Height > 0) =>
                OneResize(ResizeOption(d.Width, d.Height, 0))
           /\ (d.Percentage <= 0 /\ d.Width > 0 /\ d.Height <= 0) =>
                OneResize(ResizeOption(d.Width, 0, 0))
           /\ (d.Percentage <= 0 /\ d.Width <= 0 /\ d.Height > 0) =>
                OneResize(ResizeOption(0, d.Height, 0))
           /\ (d.Percentage <= 0 /\ d.Width <= 0 /\ d.Height <= 0) =>
                /\ call.err = ErrInvalidNoTransformProvided
                /\ call.img = NilData
                /\ resizeCalls = << >>

\* a dimension with all three set has been resized by its percentage alone
C10_Witness ==
    /\ call.op = "CreateThumbnail" /\ call.done /\ Loaded
    /\ call.dimension.Percentage > 0
    /\ call.dimension.Width > 0
    /\ call.dimension.Height > 0
    /\ call.err = ErrNil
    /\ call.img.hist = <<ResizeOption(0, 0, call.dimension.Percentage)>>

\* ------------------------------------------------------------------------
\* C11: in NewImageFromFilewWithDefault, when the load of the path fails and
\* the load of the default image fails too, or no default image is given,
\* the error returned is the error of the load of the path.
\* The code does not: the load of the default image assigns err again, and
\* its error is the one returned.
C11_PrimaryErrorIsReturned ==
    (/\ call.op = "NewImageFromFilewWithDefault"
     /\ call.done
     /\ call.opens[1].err # NoOpenError
     /\ \/ call.defaultImg = Empty
        \/ Len(call.opens) = 2 /\ call.opens[2].err # NoOpenError) =>
        /\ image = NilImage
        /\ call.loadErr = call.opens[1].err

\* ------------------------------------------------------------------------
\* C12: within one Generate call on a loaded image the resizes are chained.
\* The pixels given to each resize are the output of the most recent earlier
\* resize that succeeded, the source pixels if there is none; a dimension
\* whose resize fails leaves the image's pixels as they are, one whose resize
\* succeeds replaces them whether or not its save succeeds; and the caller's
\* Image holds the output of the last successful resize, on return too.

\* the last of the first m resize calls that returned, 0 if none did
RECURSIVE LastReturned(_)
LastReturned(m) ==
    IF m = 0 THEN 0
    ELSE IF resizeCalls[m].ok THEN m
    ELSE LastReturned(m - 1)

\* the pixels the chain holds after the first m resize calls
ChainedPixels(m) ==
    IF LastReturned(m) = 0 THEN SourceData
    ELSE Resize(resizeCalls[LastReturned(m)].base, resizeCalls[LastReturned(m)].option)

\* the resize calls of iteration k
ResizeCallsOf(k) == SelectSeq(resizeCalls, LAMBDA c : c.k = k)

C12_ResizesAreChained ==
    (call.op = "none" /\ Loaded) =>
        /\ \A n \in 1..Len(resizeCalls) : resizeCalls[n].base = ChainedPixels(n - 1)
        /\ image.ImageData = ChainedPixels(Len(resizeCalls))
        /\ \A k \in 1..Len(result) :
             Len(ResizeCallsOf(k)) = IF ResizeMode(Formats[k]) = "none" THEN 0 ELSE 1

\* Generate has returned after a resize whose save failed and a later resize
\* of the pixels that the first one left
C12_Witness ==
    /\ call.op = "none" /\ Loaded /\ Returned
    /\ \E n \in 1..Len(resizeCalls) :
         /\ n + 1 = Len(resizeCalls)
         /\ resizeCalls[n].ok
         /\ result[resizeCalls[n].k].Error # ErrNil
         /\ resizeCalls[n + 1].ok
         /\ resizeCalls[n + 1].base = Resize(SourceData, resizeCalls[n].option)
         /\ image.ImageData =
                Resize(resizeCalls[n + 1].base, resizeCalls[n + 1].option)

====
